---- MODULE Spec2Model ----
(***************************************************************************)
(* A model of yorkle.c (terminal Wordle): the letter comparison            *)
(* compare_result, the attempt validation attempt_is_valid, the player     *)
(* statistics load_stats / save_stats / print_stats and the attempt reader *)
(* read_attempt.                                                           *)
(*                                                                         *)
(* Characters are their ASCII codes (a C char, signed as on x86-64 gcc);   *)
(* a C string is the sequence of its characters before the terminating     *)
(* zero byte; a C array indexed 0..n-1 is a sequence indexed 1..n.         *)
(***************************************************************************)
EXTENDS Integers, Sequences, FiniteSets

(***************************************************************************)
(* Program constants.                                                      *)
(***************************************************************************)
\* yorkle.h is not part of the sources; README.md: "guess a five-letter word
\* in at most six attempts".
WORD_SIZE == 5
MAX_NUM_ATTEMPTS == 6

\* letter_result_t, by the numeric values print_attempt_result and
\* compare_result compare against (yorkle.c:285-287, yorkle.c:256).
LR_INCORRECT == 0
LR_WRONG_PLACE == 1
LR_IN_PLACE == 2

\* <stdio.h> EOF, as getchar and fscanf return it.
EOF == -1

\* '!' : the character compare_result writes over a consumed letter of its
\* copy of the answer (yorkle.c:247, yorkle.c:258).
Marker == 33

(***************************************************************************)
(* Bounds of the model.                                                    *)
(***************************************************************************)
\* Number of distinct lowercase letters the answers of the comparison use.
NumAnswerLetters == 3
\* Number of distinct lowercase letters the attempts of the comparison use.
NumAttemptLetters == 3
\* Largest number of words in the list of valid words.
MaxWords == 2
\* Largest number of characters on standard input before end-of-input.
MaxInputLen == 6
\* How far past MAX_NUM_ATTEMPTS the attempt count given to save_stats goes.
MaxOvershoot == 2

Index == 1..WORD_SIZE

\* The first n lowercase letters, 'a' = 97.
FirstLetters(n) == 97..(96 + n)

VARIABLES
    pc,             \* where the modelled call sequence stands
    todays_answer,  \* compare_result: the answer
    attempt,        \* the attempt string (read_attempt's output, the others' input)
    result,         \* compare_result: letter_result_t result[WORD_SIZE]
    compare_ret,    \* compare_result: its return value
    valid_words,    \* attempt_is_valid: valid_word_list_t (words, num_words = Len)
    valid_ret,      \* attempt_is_valid: its return value
    valid_exit,     \* attempt_is_valid: the return statement it left by
    stats,          \* player_stats_t: wins_per_num_attempts, num_missed_words
    stats_file,     \* stats.txt: absent, or the integers that parse from its start
    file_writable,  \* whether fopen(STATS_FILENAME, "w") succeeds
    num_attempts,   \* save_stats: its argument
    save_ret,       \* save_stats: its return value
    printed,        \* print_stats: what it wrote (played count, win rate)
    stdin,          \* read_attempt: the characters not yet read from standard input
    read_ret,       \* read_attempt: its return value
    hit_eof         \* read_attempt: whether a getchar of the call returned EOF

vars == <<pc, todays_answer, attempt, result, compare_ret, valid_words,
          valid_ret, valid_exit, stats, stats_file, file_writable,
          num_attempts, save_ret, printed, stdin, read_ret, hit_eof>>

compareVars == <<todays_answer, attempt, result, compare_ret>>
validVars == <<valid_words, valid_ret, valid_exit>>
statsVars == <<stats, stats_file, file_writable, num_attempts, save_ret, printed>>
readVars == <<stdin, read_ret, hit_eof>>

(***************************************************************************)
(* compare_result (yorkle.c:235-265).                                      *)
(***************************************************************************)
Pass1CopyUnmarked(answer, att) == [i \in Index |-> answer[i]]

\* First loop, the copy: a matched position is overwritten with '!'.
Pass1Copy(answer, att) ==
    [i \in Index |-> IF att[i] = answer[i] THEN Marker ELSE answer[i]]

\* First loop, the results: LR_IN_PLACE on a match, LR_INCORRECT otherwise.
Pass1Result(answer, att) ==
    [i \in Index |-> IF att[i] = answer[i] THEN LR_IN_PLACE ELSE LR_INCORRECT]

Pass1OutAlwaysOne(answer, att) == 1

\* `out` starts at 1 and is set to 0 by any position that does not match.
Pass1Out(answer, att) ==
    IF \E i \in Index : att[i] # answer[i] THEN 0 ELSE 1

MayOverwriteAlways(res_i) == TRUE

\* The second conjunct of the inner condition: result[i] != 2.
MayOverwrite(res_i) == res_i # 2

\* The inner loop: the smallest j whose copy letter equals attempt[i], provided
\* result[i] is not LR_IN_PLACE; 0 when the loop ends without a match.
FirstMatch(c, copy, res_i) ==
    LET hits == {j \in Index : c = copy[j] /\ MayOverwrite(res_i)}
    IN  IF hits = {} THEN 0
        ELSE CHOOSE j \in hits : \A k \in hits : j <= k

ConsumeNothing(copy, j) == copy

\* todays_answer_copy[j] = '!'
Consume(copy, j) == [copy EXCEPT ![j] = Marker]

\* The second loop from position i on, given the copy and the results so far.
RECURSIVE Pass2(_, _, _, _)
Pass2(att, copy, res, i) ==
    IF i > WORD_SIZE THEN res
    ELSE LET j == FirstMatch(att[i], copy, res[i])
         IN  IF j = 0 THEN Pass2(att, copy, res, i + 1)
             ELSE Pass2(att, Consume(copy, j),
                        [res EXCEPT ![i] = LR_WRONG_PLACE], i + 1)

\* The whole function: the result array it leaves and the value it returns.
CompareResult(answer, att) ==
    [result |-> Pass2(att, Pass1Copy(answer, att), Pass1Result(answer, att), 1),
     out    |-> Pass1Out(answer, att)]

\* The worked examples of compare_result's comment.
Bread == <<98, 114, 101, 97, 100>>
Erase == <<101, 114, 97, 115, 101>>
Blood == <<98, 108, 111, 111, 100>>
Boron == <<98, 111, 114, 111, 110>>

\* Answers and attempts are words of words.txt, WORD_SIZE lowercase letters
\* each (README.md); the worked examples are among them.
CompareInputs ==
    ([Index -> FirstLetters(NumAnswerLetters)]
        \X [Index -> FirstLetters(NumAttemptLetters)])
    \cup {<<Bread, Erase>>, <<Blood, Boron>>}

IdleCompare ==
    /\ todays_answer = <<>>
    /\ result = <<>>
    /\ compare_ret = 0

IdleValid ==
    /\ valid_words = <<>>
    /\ valid_ret = 0
    /\ valid_exit = "none"

IdleStats ==
    /\ stats = [wins_per_num_attempts |-> [k \in 1..MAX_NUM_ATTEMPTS |-> 0],
                num_missed_words |-> 0]
    /\ stats_file = [exists |-> FALSE, ints |-> <<>>]
    /\ file_writable = TRUE
    /\ num_attempts = 0
    /\ save_ret = 0
    /\ printed = [played |-> 0,
                  win_rate |-> [class |-> "none", num |-> 0, den |-> 1],
                  distribution |-> <<>>]

IdleRead ==
    /\ stdin = <<>>
    /\ read_ret = 0
    /\ hit_eof = FALSE

InitCompare ==
    /\ pc = "call"
    /\ \E in \in CompareInputs :
        /\ todays_answer = in[1]
        /\ attempt = in[2]
    /\ result = [i \in Index |-> LR_INCORRECT]
    /\ compare_ret = 0
    /\ IdleValid /\ IdleStats /\ IdleRead

Compare ==
    /\ pc = "call"
    /\ result' = CompareResult(todays_answer, attempt).result
    /\ compare_ret' = CompareResult(todays_answer, attempt).out
    /\ pc' = "done"
    /\ UNCHANGED <<todays_answer, attempt, validVars, statsVars, readVars>>

NextCompare == Compare

SpecCompare == InitCompare /\ [][NextCompare]_vars

(***************************************************************************)
(* attempt_is_valid (yorkle.c:175-189).                                    *)
(***************************************************************************)
LengthUnchecked(att) == TRUE

\* strlen(attempt) != WORD_SIZE leaves by the first return 0.
LengthOk(att) == Len(att) = WORD_SIZE

\* The loop over valid_words->words[0 .. num_words-1]: some strcmp gives 0.
InWordList(words, att) == \E i \in 1..Len(words) : words[i] = att

\* The return statement the call leaves by.
AttemptIsValidExit(words, att) ==
    IF ~LengthOk(att) THEN "wrong_length"
    ELSE IF InWordList(words, att) THEN "in_word_list"
    ELSE "not_in_word_list"

\* The value returned: 1 from inside the loop, 0 from the two other returns.
AttemptIsValid(words, att) ==
    IF AttemptIsValidExit(words, att) = "in_word_list" THEN 1 ELSE 0

\* Strings of WORD_SIZE-2 .. WORD_SIZE letters that start "aaa": the attempts
\* and the words of the list.
ValidPool ==
    {w \in UNION {[1..n -> {97, 98}] : n \in (WORD_SIZE - 2)..WORD_SIZE} :
        \A i \in 1..(WORD_SIZE - 2) : w[i] = 97}

WordLists == UNION {[1..n -> ValidPool] : n \in 0..MaxWords}

InitValid ==
    /\ pc = "call"
    /\ valid_words \in WordLists
    /\ attempt \in ValidPool
    /\ valid_ret = 0
    /\ valid_exit = "none"
    /\ IdleCompare /\ IdleStats /\ IdleRead

Validate ==
    /\ pc = "call"
    /\ valid_ret' = AttemptIsValid(valid_words, attempt)
    /\ valid_exit' = AttemptIsValidExit(valid_words, attempt)
    /\ pc' = "done"
    /\ UNCHANGED <<valid_words, attempt, todays_answer, result, compare_ret,
                   statsVars, readVars>>

NextValid == Validate

SpecValid == InitValid /\ [][NextValid]_vars

(***************************************************************************)
(* load_stats (yorkle.c:88-106).                                           *)
(*                                                                         *)
(* stats.txt is modelled by whether it can be opened and by the integers   *)
(* that fscanf("%d") parses from its start: the file ends, or holds        *)
(* something that is no integer, after them, so that every later fscanf    *)
(* fails and leaves `value` as it was. The integers are kept in the range  *)
(* where int and the counters' type agree, and EOF (-1).                   *)
(***************************************************************************)
Attempts == 1..MAX_NUM_ATTEMPTS

\* `value` after the k-th fscanf: the k-th integer of the file, or, when the
\* file holds fewer, what `value` held before: the last integer read, or the
\* indeterminate value of the uninitialised local.
ValueAfterScan(ints, uninit, k) ==
    IF k <= Len(ints) THEN ints[k]
    ELSE IF Len(ints) > 0 THEN ints[Len(ints)]
    ELSE uninit

\* value != EOF ? value : 0
Stored(value) == IF value # EOF THEN value ELSE 0

\* The stats load_stats leaves, for a file that cannot be opened (all zero)
\* and for one that can.
LoadedStats(file, uninit) ==
    IF ~file.exists
    THEN [wins_per_num_attempts |-> [k \in Attempts |-> 0],
          num_missed_words |-> 0]
    ELSE [wins_per_num_attempts |->
              [k \in Attempts |-> Stored(ValueAfterScan(file.ints, uninit, k))],
          num_missed_words |->
              Stored(ValueAfterScan(file.ints, uninit, MAX_NUM_ATTEMPTS + 1))]

(***************************************************************************)
(* save_stats (yorkle.c:308-325).                                          *)
(***************************************************************************)
RecordedAtOrAbove(st, n) ==
    IF n >= MAX_NUM_ATTEMPTS
    THEN [st EXCEPT !.num_missed_words = @ + 1]
    ELSE [st EXCEPT !.wins_per_num_attempts[n] = @ + 1]

\* The counter update: num_missed_words above MAX_NUM_ATTEMPTS, else
\* wins_per_num_attempts[num_attempts-1] (here indexed from 1).
Recorded(st, n) ==
    IF n > MAX_NUM_ATTEMPTS
    THEN [st EXCEPT !.num_missed_words = @ + 1]
    ELSE [st EXCEPT !.wins_per_num_attempts[n] = @ + 1]

\* What the fprintf calls write: the win counters, then num_missed_words.
Written(st) ==
    [exists |-> TRUE,
     ints   |-> [k \in 1..(MAX_NUM_ATTEMPTS + 1) |->
                    IF k <= MAX_NUM_ATTEMPTS THEN st.wins_per_num_attempts[k]
                    ELSE st.num_missed_words]]

(***************************************************************************)
(* print_stats (yorkle.c:345-367).                                         *)
(***************************************************************************)
RECURSIVE SumWins(_, _)
\* wins += stats->wins_per_num_attempts[i], for i < size.
SumWins(st, k) ==
    IF k = 0 THEN 0 ELSE SumWins(st, k - 1) + st.wins_per_num_attempts[k]

\* The double n / d of IEEE 754: 0/0 is NaN, x/0 an infinity, and otherwise
\* the quotient, kept as the fraction num/den.
DoubleDiv(n, d) ==
    IF d # 0 THEN [class |-> "finite", num |-> n, den |-> d]
    ELSE IF n = 0 THEN [class |-> "nan", num |-> 0, den |-> 0]
    ELSE [class |-> "inf", num |-> n, den |-> 0]

\* games = wins + num_missed_words; winRate = 100.0 * wins / games; then one
\* line per attempt count: that many stars, and the count.
PrintedStats(st) ==
    LET wins == SumWins(st, MAX_NUM_ATTEMPTS)
        games == wins + st.num_missed_words
    IN  [played |-> games,
         win_rate |-> DoubleDiv(100 * wins, games),
         distribution |-> [k \in Attempts |->
                              [stars |-> st.wins_per_num_attempts[k],
                               count |-> st.wins_per_num_attempts[k]]]]

\* The integers a stats file may hold, and what the uninitialised `value`
\* may hold.
FileInts == {EOF, 0, 2}
UninitValues == {EOF, 0, 7}

StatsFiles ==
    {[exists |-> FALSE, ints |-> <<>>]}
    \cup {[exists |-> TRUE, ints |-> q] :
            q \in UNION {[1..n -> FileInts] : n \in 0..(MAX_NUM_ATTEMPTS + 1)}}

InitStats ==
    /\ pc = "start"
    /\ stats_file \in StatsFiles
    /\ file_writable \in BOOLEAN
    /\ stats = [wins_per_num_attempts |-> [k \in Attempts |-> 0],
                num_missed_words |-> 0]
    /\ num_attempts = 0
    /\ save_ret = 0
    /\ printed = [played |-> 0,
                  win_rate |-> [class |-> "none", num |-> 0, den |-> 1],
                  distribution |-> <<>>]
    /\ attempt = <<>>
    /\ IdleCompare /\ IdleValid /\ IdleRead

LoadStats ==
    /\ pc = "start"
    /\ \E uninit \in UninitValues : stats' = LoadedStats(stats_file, uninit)
    /\ pc' = "loaded"
    /\ UNCHANGED <<stats_file, file_writable, num_attempts, save_ret, printed,
                   attempt, todays_answer, result, compare_ret, validVars, readVars>>

\* fopen succeeds: the counters are written and 1 is returned.
SaveStatsWritten(n) ==
    /\ file_writable
    /\ stats_file' = Written(Recorded(stats, n))
    /\ save_ret' = 1
    /\ pc' = "saved"

\* fopen returns NULL and fprintf is handed the null pointer, which is
\* undefined: the process is killed, or the calls do nothing and 1 is returned.
SaveStatsNullFile(n) ==
    /\ ~file_writable
    /\ stats_file' = stats_file
    /\ \/ pc' = "crashed" /\ save_ret' = save_ret
       \/ pc' = "saved" /\ save_ret' = 1

SaveStats ==
    /\ pc = "loaded"
    /\ \E n \in 1..(MAX_NUM_ATTEMPTS + MaxOvershoot) :
        /\ num_attempts' = n
        /\ stats' = Recorded(stats, n)
        /\ \/ SaveStatsWritten(n)
           \/ SaveStatsNullFile(n)
    /\ UNCHANGED <<file_writable, printed, attempt, todays_answer, result,
                   compare_ret, validVars, readVars>>

PrintStats ==
    /\ pc \in {"loaded", "saved"}
    /\ printed' = PrintedStats(stats)
    /\ pc' = "printed"
    /\ UNCHANGED <<stats, stats_file, file_writable, num_attempts, save_ret,
                   attempt, todays_answer, result, compare_ret, validVars, readVars>>

NextStats == LoadStats \/ SaveStats \/ PrintStats

SpecStats == InitStats /\ [][NextStats]_vars

(***************************************************************************)
(* read_attempt (yorkle.c:132-158).                                        *)
(***************************************************************************)
\* <ctype.h> isspace in the C locale: space, \t, \n, \v, \f, \r; not EOF.
IsSpace(c) == c \in {32, 9, 10, 11, 12, 13}

\* <ctype.h> tolower: 'A'..'Z' to 'a'..'z', anything else (EOF too) as it is.
ToLower(c) == IF c \in 65..90 THEN c + 32 ELSE c

\* The conversion of getchar's int to `char current_char` (a signed char).
ToChar(c) == IF c > 127 THEN c - 256 ELSE c

\* getchar() with `pos` the next unread character of the input `in`: the
\* character, or EOF at the end of the input, as often as it is asked.
GetChar(in, pos) == IF pos <= Len(in) THEN in[pos] ELSE EOF

\* The first loop from `pos` on: a character equal to EOF once stored in the
\* char gives up (found = FALSE), be it getchar's EOF at the end of the input
\* or the byte 0xFF, which is read and compares equal to EOF; white space is
\* skipped; anything else is the first character of the attempt. `pos` is the
\* next unread character, hit_eof whether getchar itself returned EOF.
RECURSIVE SkipSpaces(_, _)
SkipSpaces(in, pos) ==
    LET current_char == ToChar(GetChar(in, pos))
        next == IF pos <= Len(in) THEN pos + 1 ELSE pos
    IN  IF current_char = EOF
        THEN [found |-> FALSE, pos |-> next, char |-> EOF,
              hit_eof |-> pos > Len(in)]
        ELSE IF ~IsSpace(current_char)
             THEN [found |-> TRUE, pos |-> next,
                   char |-> ToLower(current_char), hit_eof |-> FALSE]
        ELSE SkipSpaces(in, next)

\* The second loop with i = Len(att) characters stored: it stops at
\* i = WORD_SIZE or at white space (which it consumes), and stores the
\* lowercased character otherwise, what getchar gives at the end of the input
\* included.
RECURSIVE ReadRest(_, _, _, _)
ReadRest(in, pos, att, eof) ==
    IF Len(att) >= WORD_SIZE
    THEN [attempt |-> att, pos |-> pos, hit_eof |-> eof]
    ELSE LET current_char == ToChar(GetChar(in, pos))
             next == IF pos <= Len(in) THEN pos + 1 ELSE pos
             at_end == eof \/ pos > Len(in)
         IN  IF IsSpace(current_char)
             THEN [attempt |-> att, pos |-> next, hit_eof |-> at_end]
             ELSE ReadRest(in, next, Append(att, ToLower(current_char)), at_end)

\* The C string an array of characters holds: the characters before its
\* first zero byte.
RECURSIVE CString(_)
CString(chars) ==
    IF chars = <<>> \/ Head(chars) = 0 THEN <<>>
    ELSE <<Head(chars)>> \o CString(Tail(chars))

\* The whole call on input `in`, the caller's buffer holding the string `old`:
\* the value returned, the string left in the buffer (attempt[i] = '\0' ends
\* it, unless a stored zero byte does earlier), the input left unread and
\* whether a getchar of the call returned EOF.
ReadAttempt(in, old) ==
    LET first == SkipSpaces(in, 1)
        rest  == ReadRest(in, first.pos, <<first.char>>, FALSE)
    IN  IF ~first.found
        THEN [ret |-> 0, attempt |-> old,
              stdin |-> SubSeq(in, first.pos, Len(in)),
              hit_eof |-> first.hit_eof]
        ELSE [ret |-> 1, attempt |-> CString(rest.attempt),
              stdin |-> SubSeq(in, rest.pos, Len(in)),
              hit_eof |-> rest.hit_eof]

\* The bytes standard input may hold: NUL, \n, space, 'A', 'b', 0xFF.
InputChars == {0, 10, 32, 65, 98, 255}

Inputs == UNION {[1..n -> InputChars] : n \in 0..MaxInputLen}

InitRead ==
    /\ pc = "call"
    /\ stdin \in Inputs
    /\ attempt = <<>>
    /\ read_ret = 0
    /\ hit_eof = FALSE
    /\ IdleCompare /\ IdleValid /\ IdleStats

\* One call of read_attempt; the game asks again after an attempt was read.
Read ==
    /\ pc \in {"call", "read"}
    /\ LET r == ReadAttempt(stdin, attempt)
       IN  /\ read_ret' = r.ret
           /\ attempt' = r.attempt
           /\ stdin' = r.stdin
           /\ hit_eof' = r.hit_eof
           /\ pc' = IF r.ret = 0 THEN "failed" ELSE "read"
    /\ UNCHANGED <<todays_answer, result, compare_ret, validVars, statsVars>>

NextRead == Read

SpecRead == InitRead /\ [][NextRead]_vars

(***************************************************************************)
(* Claims about compare_result, checked under SpecCompare.                 *)
(***************************************************************************)
Letters == 97..122

\* The positions of attempt holding letter c that got a verdict v in vs.
MarkedAs(c, vs) == {i \in Index : attempt[i] = c /\ result[i] \in vs}

\* The positions of the answer holding letter c.
OccurrencesInAnswer(c) == {j \in Index : todays_answer[j] = c}

\* C1: after compare_result, for every letter L, the number of attempt
\* positions holding L whose verdict is LR_IN_PLACE or LR_WRONG_PLACE is at
\* most the number of occurrences of L in the answer.
C1_MarkedAtMostOccurrences ==
    pc = "done" =>
        \A c \in Letters :
            Cardinality(MarkedAs(c, {LR_IN_PLACE, LR_WRONG_PLACE}))
                <= Cardinality(OccurrencesInAnswer(c))

\* A letter guessed three times that the answer holds once, elsewhere: one
\* position is marked LR_WRONG_PLACE and the others LR_INCORRECT.
C1_Witness ==
    /\ pc = "done"
    /\ \E c \in Letters :
        /\ Cardinality({i \in Index : attempt[i] = c}) >= 3
        /\ Cardinality(OccurrencesInAnswer(c)) = 1
        /\ Cardinality(MarkedAs(c, {LR_WRONG_PLACE})) = 1
        /\ Cardinality(MarkedAs(c, {LR_INCORRECT})) >= 2

\* C2: compare_result returns non-zero iff every verdict is LR_IN_PLACE, and
\* every verdict is LR_IN_PLACE iff the attempt equals the answer at every
\* position (so a word compared with itself is all LR_IN_PLACE, non-zero).
C2_ReturnIffAllInPlace ==
    pc = "done" =>
        /\ (compare_ret # 0) <=> (\A i \in Index : result[i] = LR_IN_PLACE)
        /\ (\A i \in Index : result[i] = LR_IN_PLACE)
               <=> (\A i \in Index : attempt[i] = todays_answer[i])

\* A word with a repeated letter compared with itself.
C2_Witness ==
    /\ pc = "done"
    /\ attempt = todays_answer
    /\ \E i, j \in Index : i # j /\ attempt[i] = attempt[j]
    /\ compare_ret # 0
    /\ \A i \in Index : result[i] = LR_IN_PLACE

\* C3: the two worked examples: answer "bread", attempt "erase" gives
\* [WRONG_PLACE, IN_PLACE, WRONG_PLACE, INCORRECT, INCORRECT]; answer "blood",
\* attempt "boron" gives [IN_PLACE, WRONG_PLACE, INCORRECT, IN_PLACE, INCORRECT].
C3_Fixtures ==
    pc = "done" =>
        /\ (todays_answer = Bread /\ attempt = Erase) =>
              result = <<LR_WRONG_PLACE, LR_IN_PLACE, LR_WRONG_PLACE,
                         LR_INCORRECT, LR_INCORRECT>>
        /\ (todays_answer = Blood /\ attempt = Boron) =>
              result = <<LR_IN_PLACE, LR_WRONG_PLACE, LR_INCORRECT,
                         LR_IN_PLACE, LR_INCORRECT>>

\* The comparison of "erase" with "bread" has been made.
C3_Witness ==
    /\ pc = "done"
    /\ todays_answer = Bread
    /\ attempt = Erase
    /\ result[5] = LR_INCORRECT

\* The earlier attempt positions holding the letter of position i that are
\* not exact matches.
EarlierUnmatched(i) ==
    {k \in Index : k < i /\ attempt[k] = attempt[i]
                         /\ attempt[k] # todays_answer[k]}

\* The answer positions holding the letter of attempt position i that are
\* not exact matches.
AnswerUnmatched(i) ==
    {j \in Index : todays_answer[j] = attempt[i]
                   /\ attempt[j] # todays_answer[j]}

\* C4: a position that is an exact match keeps LR_IN_PLACE; any other position
\* i gets LR_WRONG_PLACE exactly when fewer earlier non-matching attempt
\* positions hold its letter than non-matching answer positions do, and
\* LR_INCORRECT otherwise.
C4_LeftToRightAllocation ==
    pc = "done" =>
        \A i \in Index :
            IF attempt[i] = todays_answer[i]
            THEN result[i] = LR_IN_PLACE
            ELSE IF Cardinality(EarlierUnmatched(i)) < Cardinality(AnswerUnmatched(i))
                 THEN result[i] = LR_WRONG_PLACE
                 ELSE result[i] = LR_INCORRECT

\* A letter with one exact match, one misplaced occurrence served by the
\* answer's one remaining occurrence, and a later occurrence left without.
C4_Witness ==
    /\ pc = "done"
    /\ \E i, k, m \in Index :
        /\ k < m
        /\ attempt[i] = attempt[k] /\ attempt[k] = attempt[m]
        /\ result[i] = LR_IN_PLACE
        /\ result[k] = LR_WRONG_PLACE
        /\ result[m] = LR_INCORRECT

(***************************************************************************)
(* Claim about attempt_is_valid, checked under SpecValid.                  *)
(***************************************************************************)
\* C5: an attempt whose length is not WORD_SIZE is rejected for its length,
\* whether or not the list holds that string; an attempt of length WORD_SIZE
\* that is no word of the list (any attempt, for an empty list) is rejected as
\* not in the word list; the attempt is accepted exactly when its length is
\* WORD_SIZE and it equals a word of the list.
C5_ValidationOrder ==
    pc = "done" =>
        LET member == \E i \in 1..Len(valid_words) : valid_words[i] = attempt
        IN  /\ Len(attempt) # WORD_SIZE =>
                 (valid_ret = 0 /\ valid_exit = "wrong_length")
            /\ (Len(attempt) = WORD_SIZE /\ ~member) =>
                 (valid_ret = 0 /\ valid_exit = "not_in_word_list")
            /\ (valid_ret # 0) <=> (Len(attempt) = WORD_SIZE /\ member)

\* A string one letter short that the list holds, rejected for its length.
C5_Witness ==
    /\ pc = "done"
    /\ Len(attempt) = WORD_SIZE - 1
    /\ \E i \in 1..Len(valid_words) : valid_words[i] = attempt
    /\ valid_ret = 0
    /\ valid_exit = "wrong_length"

(***************************************************************************)
(* Claims about the player statistics, checked under SpecStats.            *)
(***************************************************************************)
AllZero(st) ==
    /\ \A k \in Attempts : st.wins_per_num_attempts[k] = 0
    /\ st.num_missed_words = 0

\* C6: save_stats changes exactly one counter, by +1: for num_attempts = k in
\* 1..MAX_NUM_ATTEMPTS the win counter of k, every other win counter and
\* num_missed_words unchanged; for num_attempts > MAX_NUM_ATTEMPTS
\* num_missed_words, every win counter unchanged.
C6_SaveChangesOneCounter ==
    [][(pc = "loaded" /\ pc' \in {"saved", "crashed"}) =>
        IF num_attempts' <= MAX_NUM_ATTEMPTS
        THEN /\ \A k \in Attempts :
                  stats'.wins_per_num_attempts[k] =
                      stats.wins_per_num_attempts[k]
                          + (IF k = num_attempts' THEN 1 ELSE 0)
             /\ stats'.num_missed_words = stats.num_missed_words
        ELSE /\ stats'.wins_per_num_attempts = stats.wins_per_num_attempts
             /\ stats'.num_missed_words = stats.num_missed_words + 1]_vars

\* A win at the last allowed attempt has been recorded on top of loaded
\* counters that were not all zero.
C6_Witness ==
    /\ pc = "saved"
    /\ num_attempts = MAX_NUM_ATTEMPTS
    /\ stats.wins_per_num_attempts[MAX_NUM_ATTEMPTS] = 3
    /\ stats.num_missed_words = 2

\* C7: print_stats on stats whose counters are all zero reports a played
\* count of 0 and a win rate of 0, the division being guarded.
C7_ZeroGamesWinRateZero ==
    (pc = "printed" /\ AllZero(stats)) =>
        /\ printed.played = 0
        /\ printed.win_rate.class = "finite"
        /\ printed.win_rate.num = 0

\* C8: when stats.txt cannot be opened for writing, save_stats does not
\* crash, keeps the counter update and returns zero; it returns non-zero only
\* when the stats were written.
C8_FailedSaveReturnsZero ==
    (pc \in {"saved", "crashed"} /\ ~file_writable) =>
        /\ pc = "saved"
        /\ save_ret = 0
        /\ ~AllZero(stats)

\* C9: loading a stats file that holds fewer than MAX_NUM_ATTEMPTS + 1
\* integers leaves every counter zero (load_stats returns nothing, so it has
\* no way to report a load failure): never counters that mix the file's
\* integers with values not read from it.
C9_TruncatedFileResetsToZero ==
    (pc = "loaded" /\ stats_file.exists
        /\ Len(stats_file.ints) < MAX_NUM_ATTEMPTS + 1) => AllZero(stats)

(***************************************************************************)
(* Claim about read_attempt, checked under SpecRead.                       *)
(***************************************************************************)
\* C10: read_attempt returns zero whenever a getchar of the call met the end
\* of the input, before the first non-space character or after part of a
\* token; and when it returns non-zero the attempt is a string of 1 to
\* WORD_SIZE characters, each the lowercased form of a non-space character
\* the call read from the input.
C10_EofReturnsZero ==
    [][(pc' \in {"read", "failed"}) =>
        LET consumed == SubSeq(stdin, 1, Len(stdin) - Len(stdin'))
        IN  /\ hit_eof' => read_ret' = 0
            /\ read_ret' # 0 =>
                 /\ Len(attempt') \in 1..WORD_SIZE
                 /\ \A i \in 1..Len(attempt') :
                      \E k \in 1..Len(consumed) :
                          /\ ~IsSpace(ToChar(consumed[k]))
                          /\ attempt'[i] = ToLower(ToChar(consumed[k]))]_vars

====
